---- MODULE Spec2Model ----
(***************************************************************************)
(* EnumeratorBase of o365spray (core/handlers/enumerator/modules/base.py): *)
(* a thread pool that runs one probe per user of a list, a pending set of  *)
(* futures that run() drains down to poolsize after every submission, a    *)
(* rotating proxy list, three output writers and shutdown().               *)
(***************************************************************************)
EXTENDS Integers, Sequences, FiniteSets

(* ---------------------------- bounds ----------------------------------- *)
MaxLen == 2          \* longest userlist handed to run()
MaxJobs == 3         \* jobs submitted to the executor over all runs
MaxShutdowns == 2    \* shutdown() calls on one instance
MaxOtherSteps == 1   \* steps of another task on the same event loop
NumProxies == 2      \* length of proxy_urls

(* ---------------------------- inputs ----------------------------------- *)
NoDomain == ""                       \* None or "": falsy in `domain or self.domain`
Idents == {"a", "b"}
Outcomes == {"Valid", "InvalidOrNotFound", "DifferentRealm"}
\* the userlists tried: up to a renaming of the users, the first one is "a"
UserLists == {ul \in UNION {[1..n -> Idents] : n \in 0..MaxLen} : Len(ul) > 0 => ul[1] = "a"}
Poolsizes == {0, 1}                  \* the poolsize arguments tried
WorkerCounts == {1, 2}               \* the workers arguments tried
InstanceDomains == {NoDomain, "d0"}  \* the domain arguments of __init__ tried
CallDomains == {NoDomain, "d1"}      \* the domain arguments of run() tried
NoProxy == 0

\* self.proxy_urls: the endpoints are numbered 1..NumProxies
proxy_urls == [i \in 1..NumProxies |-> i]

VARIABLES
    cpc,            \* position of __init__: args, attrs, done, raised
    output_dir,     \* __init__: an output_dir argument was given
    constructed,    \* __init__ has returned normally
    executorMade,   \* self.executor exists
    writersMade,    \* the three ThreadWriter files are open or were opened
    poolsize,       \* self.poolsize
    workers,        \* max_workers of self.executor
    selfDomain,     \* self.domain
    writer,         \* self.writer
    cursor,         \* number of elements taken from self.proxy_url_cycle, mod its length
    takes,          \* total number of next(self.proxy_url_cycle) calls
    jobs,           \* every work item the executor accepted, in submission order;
                    \* cur marks the jobs of the latest run() call
    pc,             \* position of run(): idle, loop, drain, consume
    coord,          \* who holds the event loop: free, run
    userlist,       \* run(): userlist argument
    callDomain,     \* run(): domain argument
    domain,         \* run(): the local `domain` after line 197
    idx,            \* run(): users of userlist already iterated
    futures,        \* run(): the dict `futures` (its keys)
    final,          \* FALSE in _consume_futures(futures, poolsize), TRUE in (futures, 0)
    done,           \* _consume_futures: the futures of `done` the for loop has not passed
    result,         \* how the latest run() ended: none, returned, raised, config_error
    tested, valid, idp,   \* lines of the three ThreadWriter files, tagged with the writing job
    found_idp,      \* self.found_idp
    closed,         \* the three writers have been closed
    closedWrites,   \* jobs that tried to write to a closed writer
    spc,            \* position of shutdown(): idle, executor, close
    shutdownCalls,  \* shutdown() calls so far
    shutdownReturned, \* shutdown() calls that returned
    summaryCount,   \* summaries logged by shutdown()
    lastAccepted,   \* the shutdown() calls made and returned at the latest executor.submit
    otherSteps      \* steps taken by another task of the event loop

confVars == <<cpc, output_dir, constructed, executorMade, writersMade,
             poolsize, workers, selfDomain, writer>>
runVars == <<pc, coord, userlist, callDomain, domain, idx, futures, final, done, result>>
sinkVars == <<tested, valid, idp, found_idp, closed, closedWrites>>
shutVars == <<spc, shutdownCalls, shutdownReturned, summaryCount>>
vars == <<confVars, runVars, sinkVars, shutVars, cursor, takes, jobs, lastAccepted, otherSteps>>

(* ---------------------------- __init__ --------------------------------- *)
\* a check that never finds the output directory missing
OutputDirNeverMissing(w, outdir) == FALSE

\* line 79: writer and not output_dir
MissingOutputDir(w, outdir) == w /\ ~outdir

\* a cycle built over the first URL only
proxy_url_cycle_first == <<proxy_urls[1]>>

\* lines 96-101: the cycle over proxy_urls, or None
proxy_url_cycle == IF Len(proxy_urls) > 0 THEN proxy_urls ELSE <<>>

\* lines 77-115: the instance after __init__(domain=dom, output_dir given or
\* not, workers=wk, poolsize=ps, writer=w, proxy_urls=proxy_urls)
Construct(w, outdir, ps, wk, dom) ==
    /\ writer = w
    /\ output_dir = outdir
    /\ constructed = ~MissingOutputDir(w, outdir)
    /\ cpc = IF MissingOutputDir(w, outdir) THEN "raised" ELSE "done"
    /\ executorMade = ~MissingOutputDir(w, outdir)
    /\ writersMade = (w /\ ~MissingOutputDir(w, outdir))
    /\ poolsize = ps
    /\ workers = wk
    /\ selfDomain = dom
    /\ cursor = 0
    /\ takes = 0
    /\ jobs = <<>>
    /\ pc = "idle"
    /\ coord = "free"
    /\ userlist = <<>>
    /\ callDomain = NoDomain
    /\ domain = NoDomain
    /\ idx = 0
    /\ futures = {}
    /\ final = FALSE
    /\ done = {}
    /\ result = "none"
    /\ tested = {}
    /\ valid = {}
    /\ idp = {}
    /\ found_idp = FALSE
    /\ closed = FALSE
    /\ closedWrites = 0
    /\ spc = "idle"
    /\ shutdownCalls = 0
    /\ shutdownReturned = 0
    /\ summaryCount = 0
    /\ lastAccepted = [called |-> 0, returned |-> 0]
    /\ otherSteps = 0

\* an instance that writes its output, for every poolsize, workers and domain
Init ==
    \E ps \in Poolsizes, wk \in WorkerCounts, dom \in InstanceDomains :
        Construct(TRUE, TRUE, ps, wk, dom)

\* an instance with a domain, poolsize 1 and one worker, writing or not
InitShutdown == \E w \in BOOLEAN : Construct(w, TRUE, 1, 1, "d0")

\* an instance with a domain and one worker
InitLoop == \E ps \in Poolsizes : Construct(TRUE, TRUE, ps, 1, "d0")

\* __init__ has been called with writer=w and with or without an output_dir,
\* poolsize 1, one worker and a domain, and has not run yet
InitConstruct ==
    \E w \in BOOLEAN, outdir \in BOOLEAN :
        /\ writer = w
        /\ output_dir = outdir
        /\ constructed = FALSE
        /\ cpc = "args"
        /\ executorMade = FALSE
        /\ writersMade = FALSE
        /\ poolsize = 1
        /\ workers = 1
        /\ selfDomain = "d0"
        /\ cursor = 0
        /\ takes = 0
        /\ jobs = <<>>
        /\ pc = "idle"
        /\ coord = "free"
        /\ userlist = <<>>
        /\ callDomain = NoDomain
        /\ domain = NoDomain
        /\ idx = 0
        /\ futures = {}
        /\ final = FALSE
        /\ done = {}
        /\ result = "none"
        /\ tested = {}
        /\ valid = {}
        /\ idp = {}
        /\ found_idp = FALSE
        /\ closed = FALSE
        /\ closedWrites = 0
        /\ spc = "idle"
        /\ shutdownCalls = 0
        /\ shutdownReturned = 0
        /\ summaryCount = 0
        /\ lastAccepted = [called |-> 0, returned |-> 0]
        /\ otherSteps = 0

nonConfVars == <<runVars, sinkVars, shutVars, cursor, takes, jobs, lastAccepted, otherSteps>>

\* lines 77-80: the output directory is checked before anything is created
InitCheck ==
    /\ cpc = "args"
    /\ cpc' = IF MissingOutputDir(writer, output_dir) THEN "raised" ELSE "attrs"
    /\ UNCHANGED <<output_dir, constructed, executorMade, writersMade,
                   poolsize, workers, selfDomain, writer, nonConfVars>>

\* lines 84-115: the attributes, the executor and, with writer, the three writers
InitAttrs ==
    /\ cpc = "attrs"
    /\ executorMade' = TRUE
    /\ writersMade' = writer
    /\ constructed' = TRUE
    /\ cpc' = "done"
    /\ UNCHANGED <<output_dir, poolsize, workers, selfDomain, writer, nonConfVars>>

(* ---------------------------- helpers ---------------------------------- *)
JobIds == 1..Len(jobs)
Completed(j) == jobs[j].st \in {"done", "failed"}
Executing(j) == jobs[j].st \in {"running", "probing"}
Queued(j) == jobs[j].st = "queued"

\* a run() that prefers the domain of the instance to the one of the call
EffectiveDomainInstanceFirst(arg, inst) == IF inst # NoDomain THEN inst ELSE arg

\* line 197: domain = domain or self.domain
EffectiveDomain(arg, inst) == IF arg # NoDomain THEN arg ELSE inst

\* a check that lets an empty domain through
DomainNeverInvalid(d) == FALSE

\* line 198: not domain
DomainInvalid(d) == d = NoDomain

\* a final drain that is given the poolsize again
MaxNAlwaysPoolsize == poolsize

\* a final drain that leaves one future behind
MaxNFinalOne == IF final THEN 1 ELSE poolsize

\* lines 208 and 210: the max_n handed to _consume_futures
MaxN == IF final THEN 0 ELSE poolsize

\* a loop condition that waits whenever a future is pending
MustWaitAlways(n, max_n) == n > 0

\* a loop condition that also waits when the set has reached max_n
MustWaitOrEqual(n, max_n) == n >= max_n

\* a loop condition that is off by one
MustWaitLate(n, max_n) == n > max_n + 1

\* line 168: while len(futures) > max_n
MustWait(n, max_n) == n > max_n

\* a loop body that drops the future without asking for its result
ResultNeverRaises(j) == FALSE

\* line 175: future.result() re-raises the exception of a failed job
ResultRaises(j) == jobs[j].st = "failed"

\* a wait that hands back every pending future, completed or not
WaitDoneAll == futures

\* lines 169-172: concurrent.futures.wait(..., FIRST_COMPLETED) returns the
\* futures that are completed once at least one is
WaitDone == {f \in futures : Completed(f)}

(* ---------------------------- run() ------------------------------------ *)
\* lines 197-201; cap bounds the jobs the model follows over all the runs
RunCallUpTo(ul, d, cap) ==
    /\ constructed
    /\ pc = "idle"
    /\ coord = "free"
    /\ Len(jobs) + Len(ul) <= cap
    /\ userlist' = ul
    /\ callDomain' = d
    /\ domain' = EffectiveDomain(d, selfDomain)
    /\ IF DomainInvalid(EffectiveDomain(d, selfDomain))
          THEN /\ result' = "config_error"
               /\ UNCHANGED <<pc, coord, idx, futures, final, done, jobs>>
          ELSE /\ result' = "none"
               /\ pc' = "loop"
               /\ coord' = "run"
               /\ idx' = 0
               /\ futures' = {}
               /\ final' = FALSE
               /\ done' = {}
               /\ jobs' = [j \in JobIds |-> [jobs[j] EXCEPT !.cur = FALSE]]
    /\ UNCHANGED <<confVars, sinkVars, shutVars, cursor, takes, lastAccepted, otherSteps>>

\* lines 178-201: a call of run()
RunCall(ul, d) == RunCallUpTo(ul, d, MaxJobs)

\* a loop that submits the user before the current one again
PreviousUser == userlist[IF idx > 0 THEN idx ELSE 1]

\* a loop that submits the first user again and again
FirstUser == userlist[1]

\* line 202: for user in userlist
NextUser == userlist[idx + 1]

\* lines 203-207: the next user is submitted and its future joins futures
NewJob(u) ==
    [user |-> u, domain |-> domain, cur |-> TRUE, st |-> "queued",
     outcome |-> "none", proxy |-> NoProxy, takeNo |-> 0]

RunSubmit ==
    /\ pc = "loop"
    /\ idx < Len(userlist)
    /\ jobs' = Append(jobs, NewJob(NextUser))
    /\ futures' = futures \cup {Len(jobs) + 1}
    /\ idx' = idx + 1
    /\ final' = FALSE
    /\ pc' = "drain"
    /\ lastAccepted' = [called |-> shutdownCalls, returned |-> shutdownReturned]
    /\ UNCHANGED <<confVars, sinkVars, shutVars, cursor, takes, otherSteps,
                   coord, userlist, callDomain, domain, done, result>>

\* line 210: the loop is over, the final drain starts
RunLoopExit ==
    /\ pc = "loop"
    /\ idx = Len(userlist)
    /\ final' = TRUE
    /\ pc' = "drain"
    /\ UNCHANGED <<confVars, sinkVars, shutVars, cursor, takes, jobs, lastAccepted, otherSteps,
                   coord, userlist, callDomain, domain, idx, futures, done, result>>

\* line 168, condition false: _consume_futures returns
DrainReturn ==
    /\ pc = "drain"
    /\ ~MustWait(Cardinality(futures), MaxN)
    /\ IF final
          THEN /\ pc' = "idle"
               /\ coord' = "free"
               /\ result' = "returned"
          ELSE /\ pc' = "loop"
               /\ UNCHANGED <<coord, result>>
    /\ UNCHANGED <<confVars, sinkVars, shutVars, cursor, takes, jobs, lastAccepted, otherSteps,
                   userlist, callDomain, domain, idx, futures, final, done>>

\* lines 168-172: the wait returns once a pending job has completed
DrainWait ==
    /\ pc = "drain"
    /\ MustWait(Cardinality(futures), MaxN)
    /\ WaitDone # {}
    /\ done' = WaitDone
    /\ pc' = "consume"
    /\ UNCHANGED <<confVars, sinkVars, shutVars, cursor, takes, jobs, lastAccepted, otherSteps,
                   coord, userlist, callDomain, domain, idx, futures, final, result>>

\* lines 174-176: one iteration of `for future in done`, result() returns
ConsumeOk(f) ==
    /\ pc = "consume"
    /\ f \in done
    /\ ~ResultRaises(f)
    /\ futures' = futures \ {f}
    /\ done' = done \ {f}
    /\ pc' = IF done' = {} THEN "drain" ELSE "consume"
    /\ UNCHANGED <<confVars, sinkVars, shutVars, cursor, takes, jobs, lastAccepted, otherSteps,
                   coord, userlist, callDomain, domain, idx, final, result>>

\* line 175: result() raises, the exception leaves _consume_futures and run();
\* line 176 is not reached, futures and done stay as they are
ConsumeRaise(f) ==
    /\ pc = "consume"
    /\ f \in done
    /\ ResultRaises(f)
    /\ pc' = "idle"
    /\ coord' = "free"
    /\ result' = "raised"
    /\ UNCHANGED <<confVars, sinkVars, shutVars, cursor, takes, jobs, lastAccepted, otherSteps,
                   userlist, callDomain, domain, idx, futures, final, done>>

(* ---------------------------- the pool ---------------------------------- *)
\* a pool that starts a thread for every queued work item
WorkerAlwaysFree == TRUE

\* line 103: ThreadPoolExecutor(max_workers=workers) starts queued work items
\* in submission order while fewer than max_workers threads are busy
WorkerFree == Cardinality({j \in JobIds : Executing(j)}) < workers
HeadOfQueue(j) == Queued(j) /\ \A k \in JobIds : Queued(k) => j <= k

WorkerStart(j) ==
    /\ HeadOfQueue(j)
    /\ WorkerFree
    /\ jobs' = [jobs EXCEPT ![j].st = "running"]
    /\ UNCHANGED <<confVars, runVars, sinkVars, shutVars, cursor, takes, lastAccepted, otherSteps>>

\* next(self.proxy_url_cycle): the element under the cursor, the cursor moves on
CycleNext(c) == proxy_url_cycle[c + 1]
CycleAdvance(c) == (c + 1) % Len(proxy_url_cycle)

\* the job body of a module (the override of _enumerate): it takes its proxy
WorkerProxy(j) ==
    /\ jobs[j].st = "running"
    /\ jobs' = [jobs EXCEPT ![j].st = "probing",
                            ![j].proxy = CycleNext(cursor),
                            ![j].takeNo = takes + 1]
    /\ cursor' = CycleAdvance(cursor)
    /\ takes' = takes + 1
    /\ UNCHANGED <<confVars, runVars, sinkVars, shutVars, lastAccepted, otherSteps>>

\* the job body: the probe answered with outcome o and the job writes its lines;
\* a write to a closed writer raises in the job
Line(j) == [line |-> jobs[j].user, job |-> j]

WorkerFinish(j, o) ==
    /\ jobs[j].st = "probing"
    /\ IF writer /\ closed
          THEN /\ jobs' = [jobs EXCEPT ![j].st = "failed"]
               /\ closedWrites' = closedWrites + 1
               /\ UNCHANGED <<tested, valid, idp, found_idp>>
          ELSE /\ jobs' = [jobs EXCEPT ![j].st = "done", ![j].outcome = o]
               /\ tested' = IF writer THEN tested \cup {Line(j)} ELSE tested
               /\ valid' = IF writer /\ o = "Valid" THEN valid \cup {Line(j)} ELSE valid
               /\ idp' = IF writer /\ o = "DifferentRealm" THEN idp \cup {Line(j)} ELSE idp
               /\ found_idp' = IF writer /\ o = "DifferentRealm" THEN TRUE ELSE found_idp
               /\ UNCHANGED closedWrites
    /\ UNCHANGED <<confVars, runVars, shutVars, closed, cursor, takes, lastAccepted, otherSteps>>

\* the job body: the probe raised
WorkerRaise(j) ==
    /\ jobs[j].st = "probing"
    /\ jobs' = [jobs EXCEPT ![j].st = "failed"]
    /\ UNCHANGED <<confVars, runVars, sinkVars, shutVars, cursor, takes, lastAccepted, otherSteps>>

(* ---------------------------- shutdown() ------------------------------- *)
\* lines 124-132: the summary is built and logged
ShutdownCall ==
    /\ constructed
    /\ spc = "idle"
    /\ shutdownCalls < MaxShutdowns
    /\ shutdownCalls' = shutdownCalls + 1
    /\ summaryCount' = summaryCount + 1
    /\ spc' = "executor"
    /\ UNCHANGED <<confVars, runVars, sinkVars, shutdownReturned, cursor, takes, jobs,
                   lastAccepted, otherSteps>>

\* an executor.shutdown(wait=True): it returns when every job has completed
ShutdownWaitsForJobs == \E j \in JobIds : ~Completed(j)

\* line 141: executor.shutdown becomes `lambda wait: None`, which waits for nothing
ShutdownBlocked == FALSE

\* lines 138-141: the executor itself is left as it is and keeps accepting work
ShutdownExecutor ==
    /\ spc = "executor"
    /\ ~ShutdownBlocked
    /\ spc' = "close"
    /\ UNCHANGED <<confVars, runVars, sinkVars, shutdownCalls, shutdownReturned, summaryCount,
                   cursor, takes, jobs, lastAccepted, otherSteps>>

\* lines 144-147: the three writers are closed
ShutdownClose ==
    /\ spc = "close"
    /\ closed' = IF writer THEN TRUE ELSE closed
    /\ spc' = "idle"
    /\ shutdownReturned' = shutdownReturned + 1
    /\ UNCHANGED <<confVars, runVars, tested, valid, idp, found_idp, closedWrites,
                   shutdownCalls, summaryCount, cursor, takes, jobs, lastAccepted, otherSteps>>

(* ---------------------------- the event loop --------------------------- *)
\* another task of self.loop runs only while no coroutine holds the loop
OtherTask ==
    /\ constructed
    /\ coord = "free"
    /\ otherSteps < MaxOtherSteps
    /\ otherSteps' = otherSteps + 1
    /\ UNCHANGED <<confVars, runVars, sinkVars, shutVars, cursor, takes, jobs, lastAccepted>>

\* run() and the jobs of the pool
Next ==
    \/ \E ul \in UserLists, d \in CallDomains : RunCall(ul, d)
    \/ RunSubmit
    \/ RunLoopExit
    \/ DrainReturn
    \/ DrainWait
    \/ \E f \in JobIds : ConsumeOk(f)
    \/ \E f \in JobIds : ConsumeRaise(f)
    \/ \E j \in JobIds : WorkerStart(j)
    \/ \E j \in JobIds : WorkerProxy(j)
    \/ \E j \in JobIds, o \in Outcomes : WorkerFinish(j, o)
    \/ \E j \in JobIds : WorkerRaise(j)

Spec == Init /\ [][Next]_vars

\* run() without a domain argument, the jobs of the pool and shutdown()
NextShutdown ==
    \/ \E ul \in UserLists : RunCall(ul, NoDomain)
    \/ RunSubmit
    \/ RunLoopExit
    \/ DrainReturn
    \/ DrainWait
    \/ \E f \in JobIds : ConsumeOk(f)
    \/ \E f \in JobIds : ConsumeRaise(f)
    \/ \E j \in JobIds : WorkerStart(j)
    \/ \E j \in JobIds : WorkerProxy(j)
    \/ \E j \in JobIds, o \in Outcomes : WorkerFinish(j, o)
    \/ \E j \in JobIds : WorkerRaise(j)
    \/ ShutdownCall
    \/ ShutdownExecutor
    \/ ShutdownClose

SpecShutdown == InitShutdown /\ [][NextShutdown]_vars

\* run(), the jobs of the pool and another task of the event loop
NextLoop ==
    \/ \E ul \in UserLists : RunCall(ul, NoDomain)
    \/ RunSubmit
    \/ RunLoopExit
    \/ DrainReturn
    \/ DrainWait
    \/ \E f \in JobIds : ConsumeOk(f)
    \/ \E f \in JobIds : ConsumeRaise(f)
    \/ \E j \in JobIds : WorkerStart(j)
    \/ \E j \in JobIds : WorkerProxy(j)
    \/ \E j \in JobIds, o \in Outcomes : WorkerFinish(j, o)
    \/ \E j \in JobIds : WorkerRaise(j)
    \/ OtherTask

SpecLoop == InitLoop /\ [][NextLoop]_vars

\* __init__, then run() without a domain argument, the jobs of the pool and shutdown()
NextConstruct ==
    \/ InitCheck
    \/ InitAttrs
    \/ \E ul \in UserLists : RunCall(ul, NoDomain)
    \/ RunSubmit
    \/ RunLoopExit
    \/ DrainReturn
    \/ DrainWait
    \/ \E f \in JobIds : ConsumeOk(f)
    \/ \E f \in JobIds : ConsumeRaise(f)
    \/ \E j \in JobIds : WorkerStart(j)
    \/ \E j \in JobIds : WorkerProxy(j)
    \/ \E j \in JobIds, o \in Outcomes : WorkerFinish(j, o)
    \/ \E j \in JobIds : WorkerRaise(j)
    \/ ShutdownCall
    \/ ShutdownExecutor
    \/ ShutdownClose

SpecConstruct == InitConstruct /\ [][NextConstruct]_vars

\* one instance with poolsize 1 and one worker, called again and again with
\* its own domain; one job more than elsewhere, so that a run that follows an
\* aborted run of two users can submit two users itself
InitReuse == Construct(TRUE, TRUE, 1, 1, "d0")

MaxReuseJobs == MaxJobs + 1

NextReuse ==
    \/ \E ul \in UserLists : RunCallUpTo(ul, NoDomain, MaxReuseJobs)
    \/ RunSubmit
    \/ RunLoopExit
    \/ DrainReturn
    \/ DrainWait
    \/ \E f \in JobIds : ConsumeOk(f)
    \/ \E f \in JobIds : ConsumeRaise(f)
    \/ \E j \in JobIds : WorkerStart(j)
    \/ \E j \in JobIds : WorkerProxy(j)
    \/ \E j \in JobIds, o \in Outcomes : WorkerFinish(j, o)
    \/ \E j \in JobIds : WorkerRaise(j)

SpecReuse == InitReuse /\ [][NextReuse]_vars

\* the steps of a run() that has been called: the event loop runs the coroutine
\* to its end, nothing in it awaits
RunStep ==
    \/ RunSubmit
    \/ RunLoopExit
    \/ DrainReturn
    \/ DrainWait
    \/ \E f \in JobIds : ConsumeOk(f)
    \/ \E f \in JobIds : ConsumeRaise(f)

\* the steps of the worker threads of the pool
PoolStep ==
    \/ \E j \in JobIds : WorkerStart(j)
    \/ \E j \in JobIds : WorkerProxy(j)
    \/ \E j \in JobIds, o \in Outcomes : WorkerFinish(j, o)
    \/ \E j \in JobIds : WorkerRaise(j)

\* run and pool under a fair scheduler, for every poolsize and number of
\* workers of an instance with a domain: the thread that runs run() and the
\* worker threads keep being scheduled, and every probe ends
InitFair ==
    \E ps \in Poolsizes, wk \in WorkerCounts : Construct(TRUE, TRUE, ps, wk, "d0")

NextFair ==
    \/ \E ul \in UserLists : RunCall(ul, NoDomain)
    \/ RunStep
    \/ PoolStep

SpecFair == InitFair /\ [][NextFair]_vars /\ WF_vars(RunStep) /\ WF_vars(PoolStep)

(* ---------------------------- properties ------------------------------- *)
Pending == Cardinality(futures)
Range(f) == {f[i] : i \in DOMAIN f}
CurJobs == {j \in JobIds : jobs[j].cur}
CurLines(sink) == {l \in sink : jobs[l.job].cur}

\* C1 as stated: at every point during run(), also between a submission and the
\* drain that follows it, the pending set holds at most poolsize futures.
C1_PendingAtMostCeiling == pc # "idle" => Pending <= poolsize

\* C1 as amended: during run() the pending set holds at most poolsize + 1 futures,
\* and at most poolsize at the head of the loop and during the final drain; only
\* between a submission and the end of the drain after it can it hold poolsize + 1.
C1_PendingAtMostCeilingPlusOne ==
    pc # "idle" =>
        /\ Pending <= poolsize + 1
        /\ (pc = "loop" \/ final) => Pending <= poolsize

C1_Witness == pc = "drain" /\ ~final /\ Pending = poolsize + 1 /\ poolsize >= 1

\* C2: when run() has returned normally, no job it submitted has failed: a failed
\* job makes run() raise.
C2_FailurePropagates ==
    result = "returned" => \A j \in CurJobs : jobs[j].st # "failed"

C2_Witness ==
    /\ result = "raised"
    /\ \E j \in CurJobs : jobs[j].st = "failed"
    /\ \E j \in CurJobs : jobs[j].st = "done"

\* C3: a run() call for which neither the argument nor the instance gives a domain
\* raises at once: no job is submitted, nothing is written, the pending set and the
\* writers are as before and run() is over.
C3_NoDomainFailsFast ==
    [][((\E ul \in UserLists, d \in CallDomains : RunCall(ul, d))
            /\ callDomain' = NoDomain /\ selfDomain = NoDomain)
        => (/\ result' = "config_error"
            /\ pc' = "idle"
            /\ jobs' = jobs
            /\ futures' = futures
            /\ UNCHANGED sinkVars)]_vars

C3_Witness ==
    /\ result = "config_error"
    /\ callDomain = NoDomain /\ selfDomain = NoDomain
    /\ userlist # <<>>
    /\ jobs = <<>>

\* the lines of a writer that the jobs of the latest run() wrote for user u
LinesOf(sink, u) == {l \in CurLines(sink) : l.line = u}
Positions(u) == {k \in 1..Len(userlist) : userlist[k] = u}
OutcomeLines(sink, o) ==
    /\ CurLines(sink) \subseteq CurLines(tested)
    /\ \A l \in CurLines(sink) : jobs[l.job].outcome = o

\* C4 as stated: after a run() that returned normally every user of the list, also
\* one that the list names twice, has exactly one line in "tested" and was probed
\* by exactly one job, and "valid" and "different realm" hold lines of "tested"
\* whose job ended Valid, respectively DifferentRealm.
C4_EachIdentifierOnce ==
    (result = "returned" /\ writer) =>
        /\ \A u \in Range(userlist) :
              /\ Cardinality(LinesOf(tested, u)) = 1
              /\ Cardinality({j \in CurJobs : jobs[j].user = u}) = 1
        /\ OutcomeLines(valid, "Valid")
        /\ OutcomeLines(idp, "DifferentRealm")

\* C4 as amended: after a run() that returned normally, with output writing on,
\* every position of the list was probed by exactly one job and has exactly one
\* line in "tested", so a user has as many lines and probes as the list names it
\* (one when the list names it once), and "valid" and "different realm" hold lines
\* of "tested" whose job ended Valid, respectively DifferentRealm.
C4_EachPositionOnce ==
    (result = "returned" /\ writer) =>
        /\ \A u \in Idents :
              /\ Cardinality(LinesOf(tested, u)) = Cardinality(Positions(u))
              /\ Cardinality({j \in CurJobs : jobs[j].user = u}) = Cardinality(Positions(u))
        /\ OutcomeLines(valid, "Valid")
        /\ OutcomeLines(idp, "DifferentRealm")

C4_Witness ==
    /\ result = "returned"
    /\ writer
    /\ Len(userlist) = 2
    /\ userlist[1] = userlist[2]
    /\ Cardinality(LinesOf(tested, userlist[1])) = 2
    /\ CurLines(valid) # {}
    /\ CurLines(idp) # {}

\* C5: over two shutdown() calls the summary is logged exactly once.
C5_SummaryOnce == shutdownReturned >= 2 => summaryCount = 1

\* C6: once shutdown() has returned, the pool takes no new job: no submit of run()
\* is accepted after it.
C6_NoJobAfterShutdown == lastAccepted.returned = 0

\* C7: shutdown() never waits for a job: wherever it stands, its next step can be
\* taken, whatever the jobs of the pool are doing.
C7_ShutdownNeverWaits ==
    /\ spc = "executor" => ENABLED ShutdownExecutor
    /\ spc = "close" => ENABLED ShutdownClose

C7_Witness ==
    /\ spc = "close"
    /\ \E j \in JobIds : Queued(j)
    /\ \E j \in JobIds : Executing(j)

\* C8: once shutdown() has closed the writers, no job that was in the pool when
\* shutdown() was called tries to write to a closed writer.
C8_NoWriteAfterClose == lastAccepted.called = 0 => closedWrites = 0

\* C9: while run() waits in a drain for a job to complete, another task of the same
\* event loop can take a step.
C9_DrainYieldsLoop ==
    (pc = "drain" /\ MustWait(Pending, MaxN) /\ WaitDone = {} /\ otherSteps < MaxOtherSteps)
        => ENABLED OtherTask

\* the jobs that were handed endpoint e
UsesOf(e) == Cardinality({j \in JobIds : jobs[j].takeNo > 0 /\ jobs[j].proxy = e})

\* C10: the k-th take of the rotating proxy list returns endpoint k mod N, every take
\* went to exactly one job, every endpoint was used floor(M/N) or ceil(M/N) times
\* over the M takes so far, and the count runs on over the run() calls.
C10_ProxyRotation ==
    /\ \A j \in JobIds :
          jobs[j].takeNo > 0 =>
              jobs[j].proxy = proxy_urls[((jobs[j].takeNo - 1) % NumProxies) + 1]
    /\ \A k \in 1..takes : Cardinality({j \in JobIds : jobs[j].takeNo = k}) = 1
    /\ \A j \in JobIds : jobs[j].takeNo <= takes
    /\ \A e \in 1..NumProxies :
          /\ UsesOf(e) >= takes \div NumProxies
          /\ UsesOf(e) <= (takes + NumProxies - 1) \div NumProxies

C10_Witness ==
    /\ takes > NumProxies
    /\ \E j \in JobIds : ~jobs[j].cur /\ jobs[j].takeNo > 0
    /\ \E j \in JobIds : jobs[j].cur /\ jobs[j].takeNo > 0
    /\ \E i, j \in JobIds : i < j /\ jobs[i].takeNo > jobs[j].takeNo /\ jobs[j].takeNo > 0

\* C11: __init__ with writer and without an output_dir raises before the executor
\* or a writer exists and the instance is never usable; without writer __init__
\* succeeds also without an output_dir, no writer is ever opened and shutdown()
\* closes none.
C11_OutputDirChecked ==
    /\ (writer /\ ~output_dir /\ cpc # "args") =>
          (cpc = "raised" /\ ~constructed /\ ~executorMade /\ ~writersMade /\ jobs = <<>>)
    /\ (~writer /\ cpc \notin {"args", "attrs"}) =>
          (cpc = "done" /\ constructed /\ executorMade /\ ~writersMade /\ ~closed)
    /\ (cpc = "done" /\ writer) => (output_dir /\ writersMade)

C11_Witness == writer /\ ~output_dir /\ cpc = "raised"

\* C12 as stated: when a drain re-raises the failure of a job, the handle of that job
\* and the other handles the same wait returned are out of the pending set.
C12_HandlesRemovedOnRaise == result = "raised" => done \cap futures = {}

\* C12 as amended: a handle leaves the pending set only after its job was seen to
\* have completed without failure; when a drain re-raises the failure of a job, the
\* handle of that job, and the handles of the same wait the loop had not passed,
\* are still in the pending set, which is dropped with the run.
C12_HandlesRemovedOnSuccessOnly ==
    /\ (pc # "idle" \/ result \in {"returned", "raised"}) =>
          \A j \in CurJobs \ futures : jobs[j].st = "done"
    /\ result = "raised" =>
          (done # {} /\ done \subseteq futures /\ \E f \in done : jobs[f].st = "failed")

C12_Witness ==
    /\ result = "raised"
    /\ Cardinality(done) = 2
    /\ \E f \in done : jobs[f].st = "done"
    /\ CurJobs \ futures = {}

FailedPending == \E f \in futures : jobs[f].st = "failed"

\* C13 as stated: a drain after a submission that finds a failed job in the pending
\* set re-raises its failure: it does not return to the loop for another user.
C13_FailureSurfacesAtNextDrain ==
    [][(pc = "drain" /\ ~final /\ FailedPending)
        => ~(pc' = "loop" /\ idx < Len(userlist))]_vars

\* C13 as amended: a failure surfaces at the next drain that has to wait, at the
\* latest at the final drain: the wait returns every failed pending job, a drain
\* that was handed a failed job ends by raising, the final drain does not return
\* while a failed job is pending, and after the raise no user is submitted. A drain
\* that finds the pending set within its target returns without looking at any job.
C13_FailureSurfacesAtWaitingDrain ==
    [][/\ (pc = "drain" /\ pc' = "consume") =>
              \A f \in futures : jobs[f].st = "failed" => f \in done'
       /\ (pc = "consume" /\ \E f \in done : jobs[f].st = "failed") =>
              (pc' = "consume" \/ (pc' = "idle" /\ result' = "raised"))
       /\ (pc = "drain" /\ final /\ FailedPending) => pc' \in {"drain", "consume"}
       /\ (result = "raised" /\ result' = "raised") => Len(jobs') = Len(jobs)]_vars

C13_Witness ==
    /\ result = "raised"
    /\ idx < Len(userlist)
    /\ \E j \in CurJobs : jobs[j].st = "failed"

\* C14: when run() has returned normally, one job was submitted for every user of
\* the list, every one of them has completed and the pending set is empty.
C14_ReturnedMeansDrained ==
    result = "returned" =>
        /\ futures = {}
        /\ Cardinality(CurJobs) = Len(userlist)
        /\ \A j \in CurJobs : Completed(j)

C14_Witness ==
    /\ result = "returned"
    /\ Len(userlist) = 2
    /\ poolsize = 1
    /\ workers = 2

\* the users of the jobs of the latest run(), in submission order
SubmittedBy(j) == Cardinality({k \in CurJobs : k <= j})

\* C15: once run() has raised the failure of a job, it is over: the jobs it
\* submitted are those of the first idx users of the list, one each and none
\* twice, no job is added while the caller does not call run() again, a failed
\* job is never started again, and the lines the jobs wrote stay in the writers.
C15_AbortedOnFailure ==
    [][/\ result' = "raised" =>
              /\ pc' = "idle"
              /\ Cardinality({j \in JobIds : jobs'[j].cur}) = idx'
              /\ idx' <= Len(userlist')
              /\ \A j \in CurJobs : jobs'[j].user = userlist'[SubmittedBy(j)]
       /\ (result = "raised" /\ result' = "raised") => Len(jobs') = Len(jobs)
       /\ \A j \in JobIds : jobs[j].st = "failed" => jobs'[j].st = "failed"
       /\ tested \subseteq tested' /\ valid \subseteq valid' /\ idp \subseteq idp']_vars

C15_Witness ==
    /\ result = "raised"
    /\ idx < Len(userlist)
    /\ tested # {}
    /\ \A j \in JobIds : Completed(j)

\* C16: under a fair scheduler every run() that was called ends, whatever the
\* poolsize (0 and less than the workers included); every job ends, with one
\* outcome when it is done and with none when it failed, and stays as it ended;
\* and a drain whose pending set is empty returns, it never waits.
C16_RunEnds ==
    /\ (pc # "idle") ~> (pc = "idle" /\ result \in {"returned", "raised"})
    /\ []<>(\A j \in JobIds : Completed(j))
    /\ [](\A j \in JobIds :
            /\ jobs[j].st = "done" => jobs[j].outcome \in Outcomes
            /\ jobs[j].st # "done" => jobs[j].outcome = "none")
    /\ [][\A j \in JobIds : Completed(j) =>
            (jobs'[j].st = jobs[j].st /\ jobs'[j].outcome = jobs[j].outcome)]_vars
    /\ []((pc = "drain" /\ futures = {}) => ENABLED DrainReturn)
    /\ [][pc = "drain" /\ futures = {} => pc' # "consume"]_vars

C16_Witness ==
    /\ result = "returned"
    /\ poolsize = 0
    /\ workers = 2
    /\ Len(userlist) = 2
    /\ \E j \in CurJobs : jobs[j].outcome = "Valid"

\* C17: the instance is reusable: every accepted run() starts with an empty
\* pending set of its own, every job it submits carries the domain of the call
\* when one is given and the domain of the instance otherwise, the jobs of
\* earlier runs keep theirs, and no call changes the domain of the instance.
C17_RunsAreIndependent ==
    [][/\ selfDomain' = selfDomain
       /\ (pc = "idle" /\ pc' = "loop") =>
              (futures' = {} /\ idx' = 0 /\ \A j \in JobIds : ~jobs'[j].cur)
       /\ Len(jobs') > Len(jobs) =>
              /\ jobs'[Len(jobs')].domain =
                     (IF callDomain # NoDomain THEN callDomain ELSE selfDomain)
              /\ jobs'[Len(jobs')].cur
              /\ futures' = futures \cup {Len(jobs')}
       /\ \A j \in JobIds : jobs'[j].domain = jobs[j].domain]_vars

C17_Witness ==
    /\ selfDomain = "d0"
    /\ result = "returned"
    /\ \E j \in JobIds : ~jobs[j].cur /\ jobs[j].domain = "d1"
    /\ \E j \in CurJobs : jobs[j].domain = "d0"

\* C18: while run() is on, the pending set holds at most poolsize + 1 futures;
\* when a drain returns normally the set holds at most the max_n the drain was
\* given (poolsize after a submission, 0 at the end); and a drain that finds the
\* set within max_n returns: it does not wait and removes no future.
C18_DrainBounds ==
    /\ []((pc = "drain" /\ Pending <= (IF final THEN 0 ELSE poolsize)) =>
              (ENABLED DrainReturn /\ ~ENABLED DrainWait))
    /\ [][/\ pc' # "idle" => Pending' <= poolsize + 1
          /\ (pc = "drain" /\ pc' = "loop") => Pending' <= poolsize
          /\ (pc = "drain" /\ pc' = "idle") => (final /\ Pending' = 0)
          /\ (pc = "drain" /\ Pending <= (IF final THEN 0 ELSE poolsize)) =>
                 (pc' # "consume" /\ futures' = futures /\ done' = done)]_vars

C18_Witness ==
    /\ pc = "loop"
    /\ poolsize = 1
    /\ idx = 1
    /\ Pending = 1
    /\ \E f \in futures : jobs[f].st = "failed"

\* C19: a drain never adds a future to the pending set, and the futures it removes
\* are those of completed jobs: the future of a queued or running job stays.
C19_DrainRemovesCompletedOnly ==
    [][/\ pc \in {"drain", "consume"} => futures' \subseteq futures
       /\ pc \in {"drain", "consume"} =>
              \A f \in futures \ futures' : (Completed(f) /\ jobs'[f].st = "done")
       /\ pc \in {"drain", "consume"} =>
              \A f \in futures : (~Completed(f) => f \in futures')]_vars

C19_Witness ==
    /\ pc = "drain"
    /\ ~final
    /\ Pending = 1
    /\ \E f \in futures : ~Completed(f)
    /\ \E j \in CurJobs \ futures : Completed(j)

\* the jobs handed to the executor that have not completed
Incomplete == {j \in JobIds : ~Completed(j)}

\* C20 as claimed: over all the runs of an instance at most poolsize + 1 jobs are
\* submitted and not completed, and at most `workers` jobs execute at a time.
C20_IncompleteAtMostCeilingPlusOne ==
    /\ Cardinality(Incomplete) <= poolsize + 1
    /\ Cardinality({j \in JobIds : Executing(j)}) <= workers

\* C20 as amended: at most `workers` jobs execute at a time and at most
\* poolsize + 1 jobs of the latest run are not completed; a run that returned
\* left none, but a run that raised leaves up to poolsize jobs not completed,
\* which come on top of those of the next run.
C20_IncompleteOfRunAtMostCeilingPlusOne ==
    /\ Cardinality({j \in JobIds : Executing(j)}) <= workers
    /\ Cardinality(Incomplete \cap CurJobs) <= poolsize + 1
    /\ result = "returned" => Incomplete \cap CurJobs = {}
    /\ Cardinality(Incomplete \ CurJobs) <=
           poolsize * Cardinality({j \in JobIds \ CurJobs : jobs[j].st = "failed"})

C20_Witness ==
    /\ Incomplete \ CurJobs # {}
    /\ Cardinality(Incomplete \cap CurJobs) = poolsize + 1
    /\ \E j \in JobIds : Executing(j)
====
